---------------------------- MODULE Spec2Model ----------------------------
(***************************************************************************)
(* A model of scripts/laptop_analysis.py: the batch pipeline               *)
(*   load_data -> clean_data -> perform_eda -> create_main_visualizations  *)
(*             -> analyze_categories                                       *)
(* run by main().                                                          *)
(*                                                                         *)
(* Text is a sequence of one-character strings, so that the string         *)
(* operations of the code (replace, regex extraction, split, contains,     *)
(* lower, float parsing) are computed on characters.  A table (a pandas    *)
(* DataFrame) is a sequence of columns; tables live in a heap and the      *)
(* program's variables hold references to them, so that copying and        *)
(* in-place mutation are distinguishable.  The calls into matplotlib and    *)
(* seaborn are taken to return: they read the table and save an image.     *)
(***************************************************************************)
EXTENDS Integers, Sequences, FiniteSets, TLC

VARIABLES file, pc, df, clean_df, heap, exc, calls, images

vars == <<file, pc, df, clean_df, heap, exc, calls, images>>

(***************************************************************************)
(* Characters and text                                                     *)
(***************************************************************************)

\* The currency sign U+20B9 of lines 25 and 61, as one character.
Rupee == "Rs"

Digits == <<"0", "1", "2", "3", "4", "5", "6", "7", "8", "9">>

UpperCase == <<"A", "B", "C", "D", "E", "F", "G", "H", "I", "J", "K", "L", "M",
               "N", "O", "P", "Q", "R", "S", "T", "U", "V", "W", "X", "Y", "Z">>

LowerCase == <<"a", "b", "c", "d", "e", "f", "g", "h", "i", "j", "k", "l", "m",
               "n", "o", "p", "q", "r", "s", "t", "u", "v", "w", "x", "y", "z">>

\* The sequence with the elements f[1], ..., f[n], each computed once.
AsSeq(f) == SubSeq(f, 1, Len(f))

\* The whitespace str.split() and float() strip.
WhiteSpace == {" ", "\t"}

DigitSet == { Digits[i] : i \in 1..Len(Digits) }

\* The value of each digit.
DigitValues == [c \in DigitSet |-> (CHOOSE i \in 1..Len(Digits) : Digits[i] = c) - 1]

\* The lower-case letter of each upper-case letter.
LowerOf ==
    [c \in { UpperCase[i] : i \in 1..Len(UpperCase) } |->
        LowerCase[CHOOSE i \in 1..Len(UpperCase) : UpperCase[i] = c]]

IsDigit(c) == c \in DigitSet

IsSpace(c) == c \in WhiteSpace

DigitValue(c) == DigitValues[c]

\* str.lower() on one character.
LowerChar(c) == IF c \in DOMAIN LowerOf THEN LowerOf[c] ELSE c

\* str.lower()
StrLower(s) == AsSeq([i \in 1..Len(s) |-> LowerChar(s[i])])

\* str.replace(old, new) for a one-character old and new: a literal replacement.
StrReplaceChar(s, old, new) ==
    AsSeq([i \in 1..Len(s) |-> IF s[i] = old THEN new ELSE s[i]])

RECURSIVE StrRemoveChar(_, _)
\* str.replace(old, '') for a one-character old: every occurrence is removed.
StrRemoveChar(s, old) ==
    IF s = <<>> THEN <<>>
    ELSE IF Head(s) = old THEN StrRemoveChar(Tail(s), old)
    ELSE <<Head(s)>> \o StrRemoveChar(Tail(s), old)

\* pat occurs in s at position i.
OccursAt(s, pat, i) ==
    /\ i + Len(pat) - 1 <= Len(s)
    /\ \A k \in 1..Len(pat) : s[i + k - 1] = pat[k]

\* re.search(pat, s) for a literal pattern.
StrContains(s, pat) == \E i \in 1..(Len(s) + 1) : OccursAt(s, pat, i)

\* re.search(pat, s, re.IGNORECASE) for a literal pattern.
StrContainsNoCase(s, pat) == StrContains(StrLower(s), StrLower(pat))

RECURSIVE TakeDigits(_)
\* The longest prefix of s made of digits.
TakeDigits(s) ==
    IF s = <<>> \/ ~IsDigit(Head(s)) THEN <<>>
    ELSE <<Head(s)>> \o TakeDigits(Tail(s))

RECURSIVE AllDigits(_)
\* Every digit of s, in order: what '(\d+)' would not give, the digits of the
\* later runs included.
AllDigits(s) ==
    IF s = <<>> THEN <<>>
    ELSE (IF IsDigit(Head(s)) THEN <<Head(s)>> ELSE <<>>) \o AllDigits(Tail(s))

RECURSIVE FirstDigitRun(_)
\* re.search('(\d+)', s).group(1): the leftmost, longest run of digits; <<>> when
\* s holds no digit.
FirstDigitRun(s) ==
    IF s = <<>> THEN <<>>
    ELSE IF IsDigit(Head(s)) THEN TakeDigits(s)
    ELSE FirstDigitRun(Tail(s))

RECURSIVE LStrip(_)
LStrip(s) == IF s # <<>> /\ IsSpace(Head(s)) THEN LStrip(Tail(s)) ELSE s

RECURSIVE RStrip(_)
RStrip(s) ==
    IF s # <<>> /\ IsSpace(s[Len(s)]) THEN RStrip(SubSeq(s, 1, Len(s) - 1)) ELSE s

Strip(s) == RStrip(LStrip(s))

RECURSIVE TakeToken(_)
\* The longest prefix of s without whitespace.
TakeToken(s) ==
    IF s = <<>> \/ IsSpace(Head(s)) THEN <<>>
    ELSE <<Head(s)>> \o TakeToken(Tail(s))

RECURSIVE StrSplit(_)
\* str.split(): the maximal runs of non-whitespace characters, in order.
StrSplit(s) ==
    LET t == LStrip(s)
        w == TakeToken(t)
    IN IF t = <<>> THEN <<>>
       ELSE <<w>> \o StrSplit(SubSeq(t, Len(w) + 1, Len(t)))

RECURSIVE DigitsToNat(_)
\* int(ds) for a run of digits.
DigitsToNat(ds) ==
    IF ds = <<>> THEN 0
    ELSE 10 * DigitsToNat(SubSeq(ds, 1, Len(ds) - 1)) + DigitValue(ds[Len(ds)])

(***************************************************************************)
(* Cells: a text, a number or NaN (a missing value).  A number is the      *)
(* decimal m / 10^e with no trailing zero in its fraction, so that equal   *)
(* floats are equal cells (4.50 = 4.5, 0.0 = 0).                           *)
(***************************************************************************)

NaN == [t |-> "nan", s |-> <<>>, m |-> 0, e |-> 0]

Str(s) == [t |-> "str", s |-> s, m |-> 0, e |-> 0]

RECURSIVE Num(_, _)
Num(m, e) ==
    IF e > 0 /\ m % 10 = 0 THEN Num(m \div 10, e - 1)
    ELSE [t |-> "num", s |-> <<>>, m |-> m, e |-> e]

IsStr(c) == c.t = "str"

IsNum(c) == c.t = "num"

IsNaN(c) == c.t = "nan"

\* The position of the first "." of s, 0 when s has none.
DotPos(s) ==
    IF \E i \in 1..Len(s) : s[i] = "."
    THEN CHOOSE i \in 1..Len(s) : s[i] = "." /\ \A k \in 1..(i - 1) : s[k] # "."
    ELSE 0

\* s is digits with at most one ".", and at least one digit.
IsUnsignedDecimal(s) ==
    /\ \A i \in 1..Len(s) : IsDigit(s[i]) \/ s[i] = "."
    /\ \E i \in 1..Len(s) : IsDigit(s[i])
    /\ \A i, k \in 1..Len(s) : (s[i] = "." /\ s[k] = ".") => i = k

\* The text after an optional sign.
Unsigned(s) == IF s # <<>> /\ Head(s) \in {"+", "-"} THEN Tail(s) ELSE s

\* s is a decimal numeral: [sign] digits [. digits]
IsDecimal(s) == IsUnsignedDecimal(Unsigned(s))

\* The number a decimal numeral denotes.
DecimalValue(s) ==
    LET u    == Unsigned(s)
        d    == DotPos(u)
        int  == IF d = 0 THEN u ELSE SubSeq(u, 1, d - 1)
        frac == IF d = 0 THEN <<>> ELSE SubSeq(u, d + 1, Len(u))
        mag  == DigitsToNat(int \o frac)
    IN Num(IF s # <<>> /\ Head(s) = "-" THEN 0 - mag ELSE mag, Len(frac))

\* float(s) itself accepts the text "nan" (any case, optional sign) as NaN.
IsNanLiteral(s) == StrLower(Unsigned(s)) = <<"n", "a", "n">>

\* float(s) of Python, which numpy applies to each text of an object column
\* under astype(float): surrounding whitespace is stripped; a decimal numeral
\* gives its value, "nan" gives NaN and any other text raises ValueError.  (Of
\* float's grammar the exponent, "inf" and "_" forms are left out: none of the
\* texts below holds them.)
PyFloat(s) ==
    LET b == Strip(s)
    IN IF IsDecimal(b) THEN [exc |-> "None", val |-> DecimalValue(b)]
       ELSE IF IsNanLiteral(b) THEN [exc |-> "None", val |-> NaN]
       ELSE [exc |-> "ValueError", val |-> NaN]

(***************************************************************************)
(* Tables.  A column is [name, dtype, data]; dtype "object" is a column of *)
(* Python objects (texts and NaN), "float64" a numeric column.  A table is *)
(* the sequence of its columns.  The heap is the sequence of the tables    *)
(* allocated so far; a reference is an index into it and None is 0.        *)
(***************************************************************************)

None == 0

Column(name, dtype, data) == [name |-> name, dtype |-> dtype, data |-> data]

\* The index of the column called name, 0 when the table has none.
ColIndex(t, name) ==
    IF \E i \in 1..Len(t) : t[i].name = name
    THEN CHOOSE i \in 1..Len(t) : t[i].name = name /\ \A k \in 1..(i - 1) : t[k].name # name
    ELSE 0

HasCol(t, name) == ColIndex(t, name) # 0

\* df[name]
GetCol(t, name) == t[ColIndex(t, name)]

\* df[name] = column: an existing column is replaced where it stands, a new one
\* is added last.
SetCol(t, name, dtype, data) ==
    IF HasCol(t, name)
    THEN [t EXCEPT ![ColIndex(t, name)] = Column(name, dtype, data)]
    ELSE Append(t, Column(name, dtype, data))

\* The .str accessor exists on object columns only; on a numeric column it
\* raises AttributeError.
HasStrAccessor(col) == col.dtype = "object"

\* Series.str.f(...): f on every text, NaN on everything else.
StrMap(F(_), data) ==
    AsSeq([i \in 1..Len(data) |-> IF IsStr(data[i]) THEN F(data[i].s) ELSE NaN])

\* The outcome of a step on a table: the exception it raised ("None" when it
\* returned) and the table as the step left it.
Ok(t) == [exc |-> "None", table |-> t]

Raise(e, t) == [exc |-> e, table |-> t]

\* F(v), with v computed once.
With(v, F(_)) == CHOOSE y \in { F(x) : x \in {v} } : TRUE

\* One statement after another: the second runs when the first did not raise.
Then(r, F(_)) == With(r, LAMBDA v : IF v.exc # "None" THEN v ELSE F(v.table))

(***************************************************************************)
(* The input file                                                          *)
(***************************************************************************)

\* The largest number of data rows of the input file.
MaxRows == 2

\* The names the code reads the required columns by (lines 59-68, 78, 81).
PriceName == <<"P", "r", "i", "c", "e">>
RamName == <<"R", "a", "m">>
SsdName == <<"S", "S", "D">>
RatingName == <<"R", "a", "t", "i", "n", "g">>
ModelName == <<"M", "o", "d", "e", "l">>
\* A column the code does not read.
OtherName == <<"S", "c", "r", "e", "e", "n", " ", "S", "i", "z", "e">>

\* The header row of the dataset.
CanonicalHeader == <<PriceName, RamName, SsdName, RatingName, ModelName, OtherName>>

\* Header rows that differ from it in letter case only.
CaseHeaders ==
    { <<<<"p", "r", "i", "c", "e">>, RamName, SsdName, RatingName, ModelName, OtherName>>,
      <<PriceName, <<"R", "A", "M">>, SsdName, RatingName, ModelName, OtherName>>,
      <<PriceName, RamName, <<"s", "s", "d">>, RatingName, ModelName, OtherName>>,
      <<PriceName, RamName, SsdName, <<"r", "a", "t", "i", "n", "g">>, ModelName, OtherName>>,
      <<PriceName, RamName, SsdName, RatingName, <<"M", "O", "D", "E", "L">>, OtherName>>,
      <<PriceName, RamName, SsdName, <<"R", "A", "T", "I", "N", "G">>, <<"m", "o", "d", "e", "l">>, <<"s", "c", "r", "e", "e", "n", " ", "s", "i", "z", "e">>>>,
      <<PriceName, RamName, SsdName, <<"r", "a", "t", "i", "n", "g">>, <<"m", "o", "d", "e", "l">>, OtherName>>,
      <<<<"p", "r", "i", "c", "e">>, <<"r", "a", "m">>, <<"s", "s", "d">>, <<"r", "a", "t", "i", "n", "g">>, <<"m", "o", "d", "e", "l">>, <<"s", "c", "r", "e", "e", "n", " ", "s", "i", "z", "e">>>> }

\* The texts of a well-formed record.
BasePrice == <<Rupee, "5", "4", ",", "9", "9", "9">>
BaseRam == <<"1", "6", " ", "G", "B">>
BaseSsd == <<"5", "1", "2", "G", "B">>
BaseRating == <<"4", ".", "5">>
BaseModel == <<"H", "P", " ", "G", "a", "m", "i", "n", "g", " ", "1", "5">>
BaseOther == <<"1", "5">>

\* Texts of the Price column: absent, not a number, the text nan.
PriceTexts == { <<>>, <<"T", "B", "D">>, <<Rupee, "n", "a", "n">> }

\* Texts of the Ram and SSD columns: without a digit, digits before the size,
\* absent.
RamTexts == { <<"D", "D", "R">>, <<"D", "D", "R", "4", " ", "8", "G", "B">> }

SsdTexts == { <<>> }

RatingTexts == { <<>>, <<"0">> }

\* Texts of the Model column: absent, whitespace only, and names that meet
\* several category rules at once or none.
ModelTexts ==
    { <<>>, <<" ", "\t">>, <<"A", "p", "p", "l", "e", " ", "G", "a", "m", "i", "n", "g", " ", "X">>, <<"A", "p", "p", "l", "e", " ", "T", "h", "i", "n">>, <<"A", "s", "u", "s", " ", "g", "a", "m", "i", "n", "g", " ", "S", "L", "I", "M">>,
      <<" ", "D", "e", "l", "l", " ", "1", "5">> }

BaseRow == <<BasePrice, BaseRam, BaseSsd, BaseRating, BaseModel, BaseOther>>

\* The data rows: the well-formed record, and the records that differ from it
\* in one field.
Rows ==
    {BaseRow}
    \cup { [BaseRow EXCEPT ![1] = x] : x \in PriceTexts }
    \cup { [BaseRow EXCEPT ![2] = x] : x \in RamTexts }
    \cup { [BaseRow EXCEPT ![3] = x] : x \in SsdTexts }
    \cup { [BaseRow EXCEPT ![4] = x] : x \in RatingTexts }
    \cup { [BaseRow EXCEPT ![5] = x] : x \in ModelTexts }

\* The data rows under a header of CaseHeaders.
CaseRows == { BaseRow, [BaseRow EXCEPT ![4] = <<>>, ![5] = <<"A", "p", "p", "l", "e", " ", "G", "a", "m", "i", "n", "g", " ", "X">>] }

RowSeqs(rows) == UNION { [1..n -> rows] : n \in 1..MaxRows }

\* The file at data/laptop.csv: missing, or a header row and one to MaxRows
\* data rows.
MissingFile == [exists |-> FALSE, header |-> <<>>, rows |-> <<>>]

Files ==
    {MissingFile}
    \cup { [exists |-> TRUE, header |-> CanonicalHeader, rows |-> r] : r \in RowSeqs(Rows) }
    \cup { [exists |-> TRUE, header |-> h, rows |-> r] :
               h \in CaseHeaders, r \in RowSeqs(CaseRows) }

(***************************************************************************)
(* load_data                                                               *)
(***************************************************************************)

\* The cell texts pd.read_csv reads as missing (of its default na_values).
NaTexts == { <<>>, <<"n", "a", "n">>, <<"N", "a", "N">>, <<"N", "A">>, <<"N", "/", "A">>, <<"n", "u", "l", "l">> }

IsNaText(s) == s \in NaTexts

\* pd.read_csv's type inference on one column: a column whose present cells are
\* all numerals is numeric, any other column holds its texts as they are; an
\* absent cell is NaN in both.
ReadColumn(name, texts) ==
    LET present == { i \in 1..Len(texts) : ~IsNaText(texts[i]) }
        numeric == Len(texts) > 0 /\ \A i \in present : IsDecimal(texts[i])
    IN IF numeric
       THEN Column(name, "float64",
                   AsSeq([i \in 1..Len(texts) |->
                            IF i \in present THEN DecimalValue(texts[i]) ELSE NaN]))
       ELSE Column(name, "object",
                   AsSeq([i \in 1..Len(texts) |->
                            IF i \in present THEN Str(texts[i]) ELSE NaN]))

\* pd.read_csv(file_path) of a file that exists.
ReadCsv(f) ==
    AsSeq([c \in 1..Len(f.header) |->
              ReadColumn(f.header[c], AsSeq([i \in 1..Len(f.rows) |-> f.rows[i][c]]))])

\* load_data without its except clause: the error of read_csv leaves it.
load_data_uncaught(f) ==
    IF f.exists
    THEN [exc |-> "None", isNone |-> FALSE, table |-> ReadCsv(f)]
    ELSE [exc |-> "FileNotFoundError", isNone |-> TRUE, table |-> <<>>]

\* load_data(file_path): the table read, or None when reading raised.  The
\* except clause catches every Exception, so none leaves load_data.
load_data(f) ==
    IF f.exists
    THEN [exc |-> "None", isNone |-> FALSE, table |-> ReadCsv(f)]
    ELSE [exc |-> "None", isNone |-> TRUE, table |-> <<>>]

(***************************************************************************)
(* clean_data                                                              *)
(***************************************************************************)

\* clean_df = df without the copy: the same table under a second name.
DfAlias(h, d) == [heap |-> h, ref |-> d]

\* df.copy(): a new table with the same columns and cells.
DfCopy(h, d) == [heap |-> Append(h, h[d]), ref |-> Len(h) + 1]

\* Series.astype(float) on one cell: float(text) on a text, a number or NaN as
\* it is.
CellToFloat(c) == IF IsStr(c) THEN PyFloat(c.s) ELSE [exc |-> "None", val |-> c]

\* Series.astype(float): the converted cells, or the ValueError of the first
\* text float() rejects.
AsTypeFloat(data) ==
    IF \E i \in 1..Len(data) : CellToFloat(data[i]).exc # "None"
    THEN [exc |-> "ValueError", data |-> data]
    ELSE [exc |-> "None", data |-> AsSeq([i \in 1..Len(data) |-> CellToFloat(data[i]).val])]

\* Lines 59-64: the Price column without the currency sign and the thousands
\* separators, as floats.
CleanPrice(t) ==
    IF ~HasCol(t, PriceName) THEN Raise("KeyError", t)
    ELSE IF ~HasStrAccessor(GetCol(t, PriceName)) THEN Raise("AttributeError", t)
    ELSE LET noSign  == StrMap(LAMBDA s : Str(StrRemoveChar(s, Rupee)),
                               GetCol(t, PriceName).data)
             noComma == StrMap(LAMBDA s : Str(StrRemoveChar(s, ",")), noSign)
             floats  == AsTypeFloat(noComma)
         IN IF floats.exc # "None" THEN Raise(floats.exc, t)
            ELSE Ok(SetCol(t, PriceName, "float64", floats.data))

\* Series.str.extract('(\d+)') on one text: the first run of digits, NaN when
\* the text holds no digit.
ExtractDigits(s) == IF FirstDigitRun(s) = <<>> THEN NaN ELSE Str(FirstDigitRun(s))

\* Line 68 for one column: the first run of digits of every text, as a float.
ExtractNumber(t, name) ==
    IF ~HasCol(t, name) THEN Raise("KeyError", t)
    ELSE IF ~HasStrAccessor(GetCol(t, name)) THEN Raise("AttributeError", t)
    ELSE LET floats == AsTypeFloat(StrMap(ExtractDigits, GetCol(t, name).data))
         IN IF floats.exc # "None" THEN Raise(floats.exc, t)
            ELSE Ok(SetCol(t, name, "float64", floats.data))

\* The column name with its letter case kept: spaces to underscores only.
NormalizeNameKeepCase(n) == StrReplaceChar(n, " ", "_")

\* Lines 72-74 on one column name: lower case, spaces to underscores.
NormalizeName(n) == StrReplaceChar(StrLower(n), " ", "_")

\* Lines 71-75: every column renamed.
NormalizeColumns(t) ==
    Ok(AsSeq([i \in 1..Len(t) |-> [t[i] EXCEPT !.name = NormalizeName(t[i].name)]]))

\* The column names after normalization (lines 78, 81, 105, 186, ...).
price == <<"p", "r", "i", "c", "e">>
ram == <<"r", "a", "m">>
ssd == <<"s", "s", "d">>
rating == <<"r", "a", "t", "i", "n", "g">>
model == <<"m", "o", "d", "e", "l">>
brand == <<"b", "r", "a", "n", "d">>
category == <<"c", "a", "t", "e", "g", "o", "r", "y">>

\* A fillna that leaves the missing value in place.
FillNaKeep(c, v) == c

\* Series.fillna(v) on one cell.
FillNa(c, v) == IF IsNaN(c) THEN v ELSE c

\* Line 78: a missing rating becomes 0.
FillRating(t) ==
    IF ~HasCol(t, rating) THEN Raise("KeyError", t)
    ELSE LET col == GetCol(t, rating)
         IN Ok(SetCol(t, rating, col.dtype,
                      AsSeq([i \in 1..Len(col.data) |-> FillNa(col.data[i], Num(0, 0))])))

\* Series.str.split(' ').str[0] on one text: the text before the first
\* whitespace, empty when the text starts with whitespace.
FirstTokenNoStrip(s) == Str(TakeToken(s))

\* Series.str.split().str[0] on one text: the first whitespace-delimited token,
\* NaN when the text holds none.
FirstToken(s) == IF StrSplit(s) = <<>> THEN NaN ELSE Str(StrSplit(s)[1])

\* Lines 82-87.
brand_mapping ==
    LET known == { <<"A", "p", "p", "l", "e">>, <<"H", "P">>, <<"L", "e", "n", "o", "v", "o">>, <<"D", "e", "l", "l">>, <<"A", "s", "u", "s">>, <<"A", "c", "e", "r">>, <<"M", "S", "I">>,
                   <<"S", "a", "m", "s", "u", "n", "g">>, <<"X", "i", "a", "o", "m", "i">>, <<"H", "o", "n", "o", "r">>, <<"H", "u", "a", "w", "e", "i">> }
    IN [k \in known |-> k]

\* Series.replace(mapping) on one cell.
Replace(c, mapping) ==
    IF IsStr(c) /\ c.s \in DOMAIN mapping THEN Str(mapping[c.s]) ELSE c

\* Lines 81-88: the brand column.
DeriveBrand(t) ==
    IF ~HasCol(t, model) THEN Raise("KeyError", t)
    ELSE IF ~HasStrAccessor(GetCol(t, model)) THEN Raise("AttributeError", t)
    ELSE LET tokens == StrMap(FirstToken, GetCol(t, model).data)
             t1     == SetCol(t, brand, "object", tokens)
         IN Ok(SetCol(t1, brand, "object",
                      AsSeq([i \in 1..Len(tokens) |-> Replace(tokens[i], brand_mapping)])))

\* The statements of clean_data after the copy, on the table clean_df names.
CleanSteps(t) ==
    Then(Then(Then(Then(Then(CleanPrice(t),
        LAMBDA t1 : ExtractNumber(t1, RamName)),
        LAMBDA t2 : ExtractNumber(t2, SsdName)),
        NormalizeColumns),
        FillRating),
        DeriveBrand)

\* clean_data(df) on heap h: the heap it leaves, the reference it returns (None
\* when it raised) and the exception that left it.
clean_data(h, d) ==
    With(DfCopy(h, d), LAMBDA c :
    With(CleanSteps(c.heap[c.ref]), LAMBDA r :
        [heap |-> [c.heap EXCEPT ![c.ref] = r.table],
         ret  |-> IF r.exc = "None" THEN c.ref ELSE None,
         exc  |-> r.exc]))

(***************************************************************************)
(* perform_eda, create_main_visualizations, analyze_categories             *)
(***************************************************************************)

\* df[[names]], df[name] as the reporting code reads them: KeyError when a
\* column is missing.  Reading leaves the table as it is.
ReadCols(t, names) ==
    IF \A n \in names : HasCol(t, n) THEN Ok(t) ELSE Raise("KeyError", t)

\* perform_eda: lines 105, 108 and 120 read the table; lines 116 and 131 save
\* two images.
perform_eda(t) ==
    LET r == ReadCols(t, {price, ram, ssd, rating, brand})
    IN [exc |-> r.exc,
        saved |-> IF r.exc = "None"
                  THEN {"correlation_matrix.png", "brands_count.png"} ELSE {}]

\* Line 160: the rows with a rating above 0, as a new table.
RatedRows(t) ==
    LET col  == GetCol(t, rating).data
        keep == { i \in 1..Len(col) : IsNum(col[i]) /\ col[i].m > 0 }
        RECURSIVE Pick(_, _)
        Pick(data, i) ==
            IF i > Len(data) THEN <<>>
            ELSE (IF i \in keep THEN <<data[i]>> ELSE <<>>) \o Pick(data, i + 1)
    IN AsSeq([c \in 1..Len(t) |-> [t[c] EXCEPT !.data = Pick(t[c].data, 1)]])

\* create_main_visualizations: reads the table, builds rating_df, saves one image.
create_main_visualizations(h, d) ==
    LET r == ReadCols(h[d], {price, ram, ssd, rating, brand})
    IN [exc |-> r.exc,
        heap |-> IF r.exc = "None" THEN Append(h, RatedRows(h[d])) ELSE h,
        saved |-> IF r.exc = "None" THEN {"main_analysis.png"} ELSE {}]

\* The category labels.
General == <<"G", "e", "n", "e", "r", "a", "l">>
Gaming == <<"G", "a", "m", "i", "n", "g">>
Apple == <<"A", "p", "p", "l", "e">>
Ultrabook == <<"U", "l", "t", "r", "a", "b", "o", "o", "k">>

\* The rules with the Apple rule run before the Gaming rule.
CategoryRulesAppleFirst ==
    << [label |-> Apple, on |-> "brand", pats |-> {Apple}],
       [label |-> Gaming, on |-> "model", pats |-> {Gaming}],
       [label |-> Ultrabook, on |-> "model", pats |-> {Ultrabook, <<"T", "h", "i", "n">>, <<"S", "l", "i", "m">>}] >>

\* Lines 186-188, in the order the code runs them: the label, the column the
\* rule looks at, and what it looks for (a text the model contains in any letter
\* case, or the text the brand equals).
CategoryRules ==
    << [label |-> Gaming, on |-> "model", pats |-> {Gaming}],
       [label |-> Apple, on |-> "brand", pats |-> {Apple}],
       [label |-> Ultrabook, on |-> "model", pats |-> {Ultrabook, <<"T", "h", "i", "n">>, <<"S", "l", "i", "m">>}] >>

\* One element of the boolean mask of a rule: "T", "F", or "NA" where
\* str.contains met a missing model.
MaskCell(rule, modelCell, brandCell) ==
    IF rule.on = "brand"
    THEN (IF IsStr(brandCell) /\ brandCell.s \in rule.pats THEN "T" ELSE "F")
    ELSE IF ~IsStr(modelCell) THEN "NA"
    ELSE IF \E p \in rule.pats : StrContainsNoCase(modelCell.s, p) THEN "T"
    ELSE "F"

\* df.loc[mask, 'category'] = label.  A mask with a missing value is refused by
\* .loc with a ValueError on an object column (naIsFalse = FALSE); the string
\* dtype of newer pandas gives False instead (naIsFalse = TRUE).
ApplyRule(t, rule, naIsFalse) ==
    IF ~HasCol(t, model) \/ ~HasCol(t, brand) THEN Raise("KeyError", t)
    ELSE IF rule.on = "model" /\ ~HasStrAccessor(GetCol(t, model))
    THEN Raise("AttributeError", t)
    ELSE LET models == GetCol(t, model).data
             brands == GetCol(t, brand).data
             old    == GetCol(t, category).data
             mask   == AsSeq([i \in 1..Len(old) |-> MaskCell(rule, models[i], brands[i])])
         IN IF ~naIsFalse /\ \E i \in 1..Len(old) : mask[i] = "NA"
            THEN Raise("ValueError", t)
            ELSE Ok(SetCol(t, category, "object",
                           AsSeq([i \in 1..Len(old) |->
                                     IF mask[i] = "T" THEN Str(rule.label) ELSE old[i]])))

RECURSIVE ApplyRules(_, _, _)
\* The rules one after another, each on the table the one before left.
ApplyRules(r, rules, naIsFalse) ==
    IF rules = <<>> THEN r
    ELSE With(Then(r, LAMBDA t : ApplyRule(t, Head(rules), naIsFalse)),
              LAMBDA r1 : ApplyRules(r1, Tail(rules), naIsFalse))

\* The number of rows of a table.
NRows(t) == IF t = <<>> THEN 0 ELSE Len(t[1].data)

\* analyze_categories(df): line 185 tags every row General on the table it is
\* given, lines 186-188 re-tag it; line 199 saves one image.
analyze_categories(h, d, naIsFalse) ==
    With(SetCol(h[d], category, "object",
                AsSeq([i \in 1..NRows(h[d]) |-> Str(General)])), LAMBDA t0 :
    With(ApplyRules(Ok(t0), CategoryRules, naIsFalse), LAMBDA r :
        [exc |-> r.exc,
         heap |-> [h EXCEPT ![d] = r.table],
         saved |-> IF r.exc = "None" THEN {"price_by_category.png"} ELSE {}]))

(***************************************************************************)
(* main                                                                    *)
(***************************************************************************)

\* Line 214
DfIsNotNone(d) == d # None

Init ==
    /\ file \in Files
    /\ pc = "load_data"
    /\ df = None
    /\ clean_df = None
    /\ heap = <<>>
    /\ exc = "None"
    /\ calls = <<>>
    /\ images = {}

\* Line 212: df = load_data(data_path)
LoadData ==
    /\ pc = "load_data"
    /\ \E r \in {load_data(file)} :
          /\ calls' = Append(calls, "load_data")
          /\ exc' = r.exc
          /\ IF r.exc # "None"
             THEN /\ pc' = "raised"
                  /\ UNCHANGED <<df, heap>>
             ELSE /\ pc' = "loaded"
                  /\ df' = IF r.isNone THEN None ELSE Len(heap) + 1
                  /\ heap' = IF r.isNone THEN heap ELSE Append(heap, r.table)
    /\ UNCHANGED <<file, clean_df, images>>

\* Line 214, df is None: main ends.
SkipAnalysis ==
    /\ pc = "loaded"
    /\ ~DfIsNotNone(df)
    /\ pc' = "done"
    /\ UNCHANGED <<file, df, clean_df, heap, exc, calls, images>>

\* Line 216: clean_df = clean_data(df)
CleanData ==
    /\ pc = "loaded"
    /\ DfIsNotNone(df)
    /\ \E r \in {clean_data(heap, df)} :
          /\ heap' = r.heap
          /\ exc' = r.exc
          /\ clean_df' = r.ret
          /\ pc' = IF r.exc = "None" THEN "cleaned" ELSE "raised"
    /\ calls' = Append(calls, "clean_data")
    /\ UNCHANGED <<file, df, images>>

\* Line 222: perform_eda(clean_df, reports_dir)
PerformEda ==
    /\ pc = "cleaned"
    /\ \E r \in {perform_eda(heap[clean_df])} :
          /\ exc' = r.exc
          /\ images' = images \cup r.saved
          /\ pc' = IF r.exc = "None" THEN "explored" ELSE "raised"
    /\ calls' = Append(calls, "perform_eda")
    /\ UNCHANGED <<file, df, clean_df, heap>>

\* Line 225: create_main_visualizations(clean_df, reports_dir)
CreateMainVisualizations ==
    /\ pc = "explored"
    /\ \E r \in {create_main_visualizations(heap, clean_df)} :
          /\ exc' = r.exc
          /\ heap' = r.heap
          /\ images' = images \cup r.saved
          /\ pc' = IF r.exc = "None" THEN "visualized" ELSE "raised"
    /\ calls' = Append(calls, "create_main_visualizations")
    /\ UNCHANGED <<file, df, clean_df>>

\* Line 228: analyze_categories(clean_df, reports_dir), and the end of main.
AnalyzeCategories ==
    /\ pc = "visualized"
    /\ \E naIsFalse \in BOOLEAN :
         \E r \in {analyze_categories(heap, clean_df, naIsFalse)} :
            /\ exc' = r.exc
            /\ heap' = r.heap
            /\ images' = images \cup r.saved
            /\ pc' = IF r.exc = "None" THEN "done" ELSE "raised"
    /\ calls' = Append(calls, "analyze_categories")
    /\ UNCHANGED <<file, df, clean_df>>

Next ==
    \/ LoadData
    \/ SkipAnalysis
    \/ CleanData
    \/ PerformEda
    \/ CreateMainVisualizations
    \/ AnalyzeCategories

Spec == Init /\ [][Next]_vars

(***************************************************************************)
(* Properties                                                              *)
(***************************************************************************)

\* main has called f.
Called(f) == \E i \in 1..Len(calls) : calls[i] = f

\* clean_data has just been called: it returned or raised, nothing ran since.
JustCleaned == calls = <<"load_data", "clean_data">>

\* clean_data returned a table.
CleanReturned == clean_df # None

\* The column of the file as read whose name is n in lower case.
RawCol(n) ==
    LET raw == ReadCsv(file)
    IN raw[CHOOSE k \in 1..Len(raw) : StrLower(raw[k].name) = n]

\* The data of column n of the table clean_data returned.
CleanCol(n) == GetCol(heap[clean_df], n).data

\* The number of data rows of the file.
FileRows == Len(file.rows)

\* The text of the file at row i under the header that is n in lower case.
FileText(i, n) ==
    file.rows[i][CHOOSE k \in 1..Len(file.header) : StrLower(file.header[k]) = n]

\* The category the priority order gives a row: Ultrabook over Apple over
\* Gaming over General.
PriorityCategory(m, b) ==
    IF IsStr(m) /\ \E p \in {Ultrabook, <<"T", "h", "i", "n">>, <<"S", "l", "i", "m">>} : StrContainsNoCase(m.s, p)
    THEN Ultrabook
    ELSE IF b = Str(Apple) THEN Apple
    ELSE IF IsStr(m) /\ StrContainsNoCase(m.s, Gaming) THEN Gaming
    ELSE General

\* C1: once analyze_categories has returned, the category of every row is
\* Ultrabook if its model contains Ultrabook, Thin or Slim in any letter case,
\* otherwise Apple if its brand is Apple, otherwise Gaming if its model contains
\* Gaming in any letter case, otherwise General.
C1_CategoryPriority ==
    (pc = "done" /\ CleanReturned) =>
        \A t \in {heap[clean_df]} :
            \A models \in {GetCol(t, model).data}, brands \in {GetCol(t, brand).data},
               cats \in {GetCol(t, category).data} :
                \A i \in 1..Len(cats) :
                    cats[i] = Str(PriorityCategory(models[i], brands[i]))

\* analyze_categories returned on a table with an Apple row whose model contains
\* Gaming, tagged Apple, and a row that contains Gaming and Slim, tagged Ultrabook.
C1_Witness ==
    /\ pc = "done"
    /\ CleanReturned
    /\ \E i, j \in 1..FileRows :
        /\ CleanCol(brand)[i] = Str(Apple)
        /\ StrContainsNoCase(CleanCol(model)[i].s, Gaming)
        /\ CleanCol(category)[i] = Str(Apple)
        /\ IsStr(CleanCol(model)[j])
        /\ StrContainsNoCase(CleanCol(model)[j].s, Gaming)
        /\ StrContainsNoCase(CleanCol(model)[j].s, <<"S", "l", "i", "m">>)
        /\ CleanCol(category)[j] = Str(Ultrabook)

\* C2: whenever clean_data returns a table, every row of it has a number (not
\* NaN, not a text) as its price, ram, ssd and rating.
C2_AllNumeric ==
    CleanReturned =>
        \A n \in {price, ram, ssd, rating} :
            \A col \in {CleanCol(n)} : \A i \in 1..Len(col) : IsNum(col[i])

\* The Price text without the currency sign and the thousands separators.
PriceRemainder(s) == StrRemoveChar(StrRemoveChar(s, Rupee), ",")

\* C3: if the Price text of any row, without the currency sign and the
\* thousands separators, is not a numeral, clean_data raises and returns no table.
C3_BadPriceFails ==
    ( /\ Called("clean_data")
      /\ \E i \in 1..FileRows :
            /\ ~IsNaText(FileText(i, price))
            /\ ~IsDecimal(Strip(PriceRemainder(FileText(i, price)))) )
    => (clean_df = None /\ pc = "raised" /\ exc # "None")

\* C4: when the file cannot be read, load_data returns None and raises nothing,
\* and main calls nothing else: no table is built and no image is saved.
C4_LoadFailureStops ==
    (~file.exists /\ pc # "load_data") =>
        /\ pc \in {"loaded", "done"}
        /\ exc = "None"
        /\ df = None
        /\ clean_df = None
        /\ calls = <<"load_data">>
        /\ heap = <<>>
        /\ images = {}

\* main has ended after a failed load.
C4_Witness == ~file.exists /\ pc = "done" /\ df = None /\ calls = <<"load_data">>

\* C5: once clean_data has been called, whether it returned or raised, the raw
\* table has the column names and the cells it was read with.
C5_RawUnchanged == Called("clean_data") => heap[df] = ReadCsv(file)

\* clean_data returned a table that differs from the raw one, which is as read.
C5_Witness ==
    /\ JustCleaned
    /\ CleanReturned
    /\ heap[clean_df] # heap[df]
    /\ heap[df] = ReadCsv(file)
    /\ FileRows > 0

\* The names the required columns are read by.
RequiredNames == {PriceName, RamName, SsdName, RatingName, ModelName}

\* The header differs from the canonical one in letter case at most.
CaseVariant(header) ==
    /\ Len(header) = Len(CanonicalHeader)
    /\ \A k \in 1..Len(header) : StrLower(header[k]) = StrLower(CanonicalHeader[k])

\* The outcome of clean_data in this state: the exception, and the table returned.
CleanOutcome == <<exc, IF CleanReturned THEN heap[clean_df] ELSE <<>> >>

\* The outcome of clean_data on the file with the header spelled canonically.
CanonicalOutcome ==
    \* the required names spelled canonically, the other names as they are
    LET h == [k \in 1..Len(file.header) |->
                 IF \E n \in RequiredNames : StrLower(n) = StrLower(file.header[k])
                 THEN CHOOSE n \in RequiredNames : StrLower(n) = StrLower(file.header[k])
                 ELSE file.header[k]]
    IN CHOOSE o \in { <<r.exc, IF r.ret # None THEN r.heap[r.ret] ELSE <<>> >> :
                        r \in {clean_data(<<ReadCsv([file EXCEPT !.header = h])>>, 1)} } : TRUE

ExactlySpelled(header) ==
    \A n \in {PriceName, RamName, SsdName} : \E k \in 1..Len(header) : header[k] = n

IsFirstToken(w, s) ==
    /\ w # <<>>
    /\ \E a \in 1..Len(s) :
        /\ \A k \in 1..(a - 1) : IsSpace(s[k])
        /\ a + Len(w) - 1 <= Len(s)
        /\ \A k \in 1..Len(w) : s[a + k - 1] = w[k] /\ ~IsSpace(w[k])
        /\ (a + Len(w) <= Len(s) => IsSpace(s[a + Len(w)]))

\* C7 as claimed: in a table clean_data returned, every row whose model is a
\* text, a text of whitespace included, has a brand, and the brand is the first
\* whitespace-delimited token of the model.
C7_BrandOfEveryText ==
    CleanReturned =>
        \A models \in {CleanCol(model)}, brands \in {CleanCol(brand)} :
            \A i \in 1..Len(models) :
                IsStr(models[i]) =>
                    /\ IsStr(brands[i])
                    /\ IsFirstToken(brands[i].s, models[i].s)

\* The text holds a character that is not whitespace.
HasToken(s) == \E k \in 1..Len(s) : ~IsSpace(s[k])

\* C7 as amended: in a table clean_data returned, every row whose model holds a
\* character that is not whitespace has a brand, the first whitespace-delimited
\* token of the model as it stands; a row whose model is whitespace or missing
\* has no brand.
C7_BrandOfTokenModel ==
    CleanReturned =>
        \A models \in {CleanCol(model)}, brands \in {CleanCol(brand)} :
            \A i \in 1..Len(models) :
                IF IsStr(models[i]) /\ HasToken(models[i].s)
                THEN IsStr(brands[i]) /\ IsFirstToken(brands[i].s, models[i].s)
                ELSE IsNaN(brands[i])

\* clean_data returned a table with a model that starts with whitespace and has
\* a brand, and a model of whitespace only.
C7_Witness ==
    /\ CleanReturned
    /\ \E i, j \in 1..FileRows :
        /\ IsStr(CleanCol(model)[i])
        /\ IsSpace(CleanCol(model)[i].s[1])
        /\ IsStr(CleanCol(brand)[i])
        /\ IsStr(CleanCol(model)[j])
        /\ ~HasToken(CleanCol(model)[j].s)

\* C8: in a table clean_data returned, a row whose rating was absent and a row
\* whose rating was the text 0 both have the rating 0, and every other row has
\* the rating it was read with.
C8_RatingDefault ==
    CleanReturned =>
        \A ratings \in {CleanCol(rating)}, raw \in {RawCol(rating).data} :
            \A i \in 1..FileRows :
                /\ FileText(i, rating) \in {<<>>, <<"0">>} => ratings[i] = Num(0, 0)
                /\ IsNaN(raw[i]) => ratings[i] = Num(0, 0)
                /\ ~IsNaN(raw[i]) => ratings[i] = raw[i]

\* clean_data returned a table read from a row without a rating and a row
\* rated 0, which have the same rating.
C8_Witness ==
    /\ CleanReturned
    /\ \E i, j \in 1..FileRows :
        /\ FileText(i, rating) = <<>>
        /\ CleanCol(rating)[i] = Num(0, 0)
        /\ FileText(j, rating) = <<"0">>
        /\ CleanCol(rating)[j] = CleanCol(rating)[i]

\* v is the number the first run of digits of s spells.
IsFirstRunValue(v, s) ==
    \E a \in 1..Len(s) : \E b \in a..Len(s) :
        /\ \A k \in 1..(a - 1) : ~IsDigit(s[k])
        /\ \A k \in a..b : IsDigit(s[k])
        /\ (b < Len(s) => ~IsDigit(s[b + 1]))
        /\ v = Num(DigitsToNat(SubSeq(s, a, b)), 0)

\* Nothing but the Ram and SSD texts could make clean_data raise: the header is
\* spelled canonically, every Price text is a numeral under its sign and
\* separators, and Price, Ram, SSD and Model each hold a text.
OnlyRamSsdInDoubt ==
    /\ file.header = CanonicalHeader
    /\ \A i \in 1..FileRows :
          IsNaText(FileText(i, price)) \/ IsDecimal(PriceRemainder(FileText(i, price)))
    /\ \A n \in {price, ram, ssd, model} : RawCol(n).dtype = "object"

\* C9: in a table clean_data returned, the ram and ssd of a row whose text holds
\* a digit are the number its first run of digits spells, whatever follows the
\* run, and those of a row whose text holds no digit are missing; a text
\* without a digit does not make clean_data raise.
C9_FirstDigitRun ==
    /\ CleanReturned =>
        \A n \in {ram, ssd} :
            \A col \in {CleanCol(n)}, raw \in {RawCol(n).data} :
                \A i \in 1..Len(raw) :
                    IF IsStr(raw[i]) /\ \E k \in 1..Len(raw[i].s) : IsDigit(raw[i].s[k])
                    THEN IsFirstRunValue(col[i], raw[i].s)
                    ELSE IsNaN(col[i])
    /\ (JustCleaned /\ OnlyRamSsdInDoubt) => (CleanReturned /\ exc = "None")

\* clean_data returned a table with the ram 16 read from "16 GB", the ssd 512
\* read from "512GB", and a missing ram read from a text without a digit.
C9_Witness ==
    /\ CleanReturned
    /\ \E i, j \in 1..FileRows :
        /\ FileText(i, ram) = <<"D", "D", "R">>
        /\ IsNaN(CleanCol(ram)[i])
        /\ FileText(j, ram) = <<"1", "6", " ", "G", "B">>
        /\ CleanCol(ram)[j] = Num(16, 0)
        /\ FileText(j, ssd) = <<"5", "1", "2", "G", "B">>
        /\ CleanCol(ssd)[j] = Num(512, 0)

\* C10: no stage of main changes the table it is given: through every step the
\* raw table and the cleaned table keep their columns and cells.
C10_StagesLeaveTables ==
    [][ /\ (df # None => heap'[df] = heap[df])
        /\ (clean_df # None => heap'[clean_df] = heap[clean_df]) ]_vars

=============================================================================
